---- MODULE Spec2Model ----
(***************************************************************************)
(* Model of the quilt render job of src/lightfield_render.py: the          *)
(* RenderJob state machine, its renderer lifecycle callbacks, the modal    *)
(* operator LOOKINGGLASS_OT_render_quilt that drives it, and the lockfile  *)
(* based continuation of an interrupted job.                               *)
(*                                                                         *)
(* A pixel buffer is identified by the path of the view file it was read   *)
(* from (post_render and init_render both fill a buffer by loading a view  *)
(* file); a path is the pair <<frame key, view>>.                          *)
(***************************************************************************)
EXTENDS Integers, Sequences, FiniteSets, TLC

\* ------------------------------------------------------------------ bounds
MaxViews == 3
MaxFrame == 2
MaxStep == 2
MaxRefused == 1
MaxRows == 2
MaxColumns == 2
MaxWidth == 2
MaxHeight == 2
MaxBuffers == 2
MaxPoseViews == 5

\* --------------------------------------------------------------- variables
VARIABLES
    scene,          \* scene / add-on settings the job reads: frame_start, frame_end,
                    \* frame_step, frame_current, render_output, preset total_views, file_use_temp;
                    \* the blend file of the session, the outcome of the output path checks,
                    \* the active camera, the camera active before the job, the resolution
    job,            \* the RenderJob instance (render_settings.job)
    op,             \* the operator: arguments, cancel_sign/cancel_message, result, report
    render_cancel,  \* scene.addon_settings.render_cancel
    handlers,       \* TRUE while the job's callbacks are in bpy.app.handlers
    pending,        \* lifecycle hooks the renderer still owes for the accepted request
    viewfiles,      \* view files on disk (set of paths)
    quiltfiles,     \* quilt files on disk (set of paths)
    quilts,         \* quilt path -> buffers the quilt was assembled from
    lockfile,       \* <<>> when there is no lockfile, else <<record>>
    captured,       \* history: path of every view saved by post_render, in order
    requests,       \* history: number of calls of bpy.ops.render.render
    refused,        \* history: number of those calls that returned CANCELLED
    recorded,       \* history: <<frame, view>> read from the lockfile by invoke, else <<>>
    data_objects,   \* bpy.data.objects: the temporary cameras, by the number in their name
    foreign         \* the view files on disk whose image has another size than a view
                    \* of the job (files of an earlier job that were replaced)

vars == <<scene, job, op, render_cancel, handlers, pending, viewfiles, quiltfiles,
          quilts, lockfile, captured, requests, refused, recorded, data_objects, foreign>>

\* ------------------------------------------------------------- vocabulary
States == {"INVOKE_RENDER", "INIT_RENDER", "PRE_RENDER", "POST_RENDER",
           "COMPLETE_RENDER", "CANCEL_RENDER", "IDLE"}

HookOrder == <<"init", "pre", "post", "complete">>

MsgCancelled == "Quilt rendering was cancelled."
MsgQuiltDone == "Complete quilt rendered."
MsgAnimationDone == "Complete animation quilt rendered."
MsgCannotContinue == "Render job can not be continued. Missing view file(s) of the previously failed render job."
MsgLockfileBroken == "Render job can not be continued. Lockfile not found or corrupted."
MsgDiscarded == "Render job discarded."
MsgNone == "(unset)"

\* the checks of the output path in invoke that end the operator with an error
OutputErrors == {"no_directory", "file_exists", "extension_mismatch", "no_extension",
                 "not_writable"}

\* ------------------------------------------------------------- file paths
\* RenderJob.quilt_filepath: the frame is part of the name only for animations
quilt_filepath(j, frame) ==
    IF j.animation THEN <<frame, "quilt">> ELSE <<0, "quilt">>

\* RenderJob.view_filepath: the quilt name with a _v<view> segment
view_filepath(j, view, frame) ==
    IF j.animation THEN <<frame, view>> ELSE <<0, view>>

\* ------------------------------------------------------------ the job
\* a camera is named by its base name and the number Blender adds to it; None
NoCamera == << "None", 0 >>

\* the seed of a job that has stored none (None)
NoSeed == 0 - 1

\* the seed of the Cycles settings of the scene before the job
UserSeed == 10

\* RenderJob.__init__: the attribute values of a new job
NewRenderJob(animation, use_lockfile) ==
    [ init |-> TRUE,
      seed |-> NoSeed,
      animation |-> animation,
      use_lockfile |-> use_lockfile,
      state |-> "INVOKE_RENDER",
      frame |-> 1,
      view |-> 0,
      rows |-> 0,
      columns |-> 0,
      total_views |-> 0,
      file_use_temp |-> FALSE,
      file_force_keep |-> FALSE,
      view_images_pixels |-> <<>>,
      camera_original |-> NoCamera,
      cancel_sign |-> MsgNone,
      cancel_message |-> MsgNone ]

\* the attributes of the job that RenderSettings.to_dict writes to the lockfile
\* (every attribute without a leading underscore)
to_dict(j) ==
    [ init |-> j.init,
      seed |-> j.seed,
      animation |-> j.animation,
      frame |-> j.frame,
      view |-> j.view,
      rows |-> j.rows,
      columns |-> j.columns,
      total_views |-> j.total_views,
      file_use_temp |-> j.file_use_temp,
      file_force_keep |-> j.file_force_keep ]

\* mutant of from_dict: the columns are not read
from_dict_without_columns(j, d) ==
    [ j EXCEPT !.init = d.init,
               !.seed = d.seed,
               !.animation = d.animation,
               !.frame = d.frame,
               !.view = d.view,
               !.rows = d.rows,
               !.total_views = d.total_views,
               !.file_use_temp = d.file_use_temp,
               !.file_force_keep = d.file_force_keep ]

\* mutant of from_dict: the view is not read
from_dict_without_view(j, d) ==
    [ j EXCEPT !.init = d.init,
               !.seed = d.seed,
               !.animation = d.animation,
               !.frame = d.frame,
               !.rows = d.rows,
               !.columns = d.columns,
               !.total_views = d.total_views,
               !.file_use_temp = d.file_use_temp,
               !.file_force_keep = d.file_force_keep ]

\* RenderSettings.from_dict applied to the job: every stored attribute is set
from_dict(j, d) ==
    [ j EXCEPT !.init = d.init,
               !.seed = d.seed,
               !.animation = d.animation,
               !.frame = d.frame,
               !.view = d.view,
               !.rows = d.rows,
               !.columns = d.columns,
               !.total_views = d.total_views,
               !.file_use_temp = d.file_use_temp,
               !.file_force_keep = d.file_force_keep ]

\* the blend files whose lockfile has the path of this session's lockfile (the
\* lockfile is named after the base name of the blend file only)
BlendFiles == {"/a/scene.blend", "/b/scene.blend"}

\* RenderSettings.write_to_lockfile: the job's attributes, the seed of the Cycles
\* settings of the scene, and the path of the blend file of the session
write_to_lockfile(j) ==
    << ("blend_file" :> scene.blend_file) @@ ("cycles_seed" :> scene.seed) @@ to_dict(j) >>

\* what is left of a lockfile that json.load can not parse
CorruptLockfile == << [ garbage |-> TRUE ] >>

\* RenderSettings.read_from_lockfile raises: no lockfile, or no JSON in it
LockfileUnreadable == lockfile = <<>> \/ "frame" \notin DOMAIN lockfile[1]

\* RenderSettings.__init__ with RenderJob.__init__: the job, the lockfile, what
\* was read from the lockfile, whether the job's geometry was set, and the scene:
\* reading the lockfile applies the settings stored in it to the scene
RenderSettings ==
    LET fresh == [ NewRenderJob(op.animation, op.use_lockfile) EXCEPT
                     !.file_use_temp = scene.file_use_temp ]
    IN  IF op.use_lockfile
        THEN IF LockfileUnreadable
             THEN [ job |-> fresh, lockfile |-> lockfile, recorded |-> <<>>,
                    loaded |-> FALSE, scene |-> scene ]
             ELSE [ job |-> [ from_dict(fresh, lockfile[1]) EXCEPT !.init = TRUE ],
                    lockfile |-> lockfile,
                    recorded |-> << lockfile[1].frame, lockfile[1].view >>,
                    loaded |-> TRUE,
                    scene |-> [ scene EXCEPT !.seed = lockfile[1].cycles_seed ] ]
        ELSE LET j == [ fresh EXCEPT
                          !.rows = scene.rows,
                          !.columns = scene.columns,
                          !.total_views = scene.total_views,
                          !.frame = IF op.animation THEN scene.frame_start
                                    ELSE scene.frame_current ]
             IN  [ job |-> j, lockfile |-> write_to_lockfile(j), recorded |-> <<>>,
                   loaded |-> TRUE, scene |-> scene ]

\* ------------------------------------------------------------ cameras
Min(S) == CHOOSE x \in S : \A y \in S : x <= y

\* the number in the name of a new temporary camera: the lowest not in use
NewCameraNumber == Min((0..Cardinality(data_objects)) \ data_objects)

\* RenderJob.setup_camera, single-camera mode: on the first view of a frame the
\* camera of the add-on is remembered as the original camera, and a new
\* temporary camera becomes the active camera of the scene
setup_camera ==
    IF job.init
    THEN [ job |-> [ job EXCEPT !.camera_original = scene.lookingglassCamera ],
           objects |-> data_objects \cup {NewCameraNumber},
           camera |-> << "_quilt_render_cam", NewCameraNumber >> ]
    ELSE [ job |-> job, objects |-> data_objects, camera |-> scene.camera ]

\* RenderJob.clean_up, single-camera mode: the object named exactly
\* _quilt_render_cam is removed, the scene camera is set to the original camera
clean_up ==
    [ objects |-> data_objects \ {0}, camera |-> job.camera_original ]

\* ------------------------------------------------- lifecycle callbacks
\* The callbacks act on a "world" w: the job, the cancel flag, the view files
\* and the capture history, so that several of them can run within one handler.

World == [ job |-> job, render_cancel |-> render_cancel,
           viewfiles |-> viewfiles, captured |-> captured, foreign |-> foreign ]

\* indices below the job's view whose view file is missing
MissingViews(w) ==
    { v \in 0..(w.job.view - 1) :
        view_filepath(w.job, v, w.job.frame) \notin w.viewfiles }

\* the buffers of views 0..n-1 of the current frame, in index order
LoadedViews(j, n) == [ i \in 1..n |-> view_filepath(j, i - 1, j.frame) ]

\* mutant of ReloadViews: the loop over the views runs one view too far
ReloadViews_one_more(w) ==
    IF MissingViews(w) = {}
    THEN [ w EXCEPT !.job.view_images_pixels = @ \o LoadedViews(w.job, w.job.view + 1),
                    !.job.use_lockfile = FALSE ]
    ELSE [ w EXCEPT !.job.view_images_pixels = @ \o LoadedViews(w.job, Min(MissingViews(w))),
                    !.job.state = "CANCEL_RENDER",
                    !.job.file_force_keep = TRUE,
                    !.job.cancel_sign = "ERROR",
                    !.job.cancel_message = MsgCannotContinue ]

\* RenderJob.init_render, the part run when the lockfile is used on the first render
ReloadViews(w) ==
    IF MissingViews(w) = {}
    THEN [ w EXCEPT !.job.view_images_pixels = @ \o LoadedViews(w.job, w.job.view),
                    !.job.use_lockfile = FALSE ]
    ELSE [ w EXCEPT !.job.view_images_pixels = @ \o LoadedViews(w.job, Min(MissingViews(w))),
                    !.job.state = "CANCEL_RENDER",
                    !.job.file_force_keep = TRUE,
                    !.job.cancel_sign = "ERROR",
                    !.job.cancel_message = MsgCannotContinue ]

\* RenderJob.init_render
init_render(w) ==
    IF w.job.state # "CANCEL_RENDER" /\ ~w.render_cancel
    THEN LET w1 == [ w EXCEPT !.job.state = "INIT_RENDER" ]
         IN  IF w1.job.use_lockfile /\ w1.job.init THEN ReloadViews(w1) ELSE w1
    ELSE w

\* mutant of pre_render: the state name of the next callback
pre_render_wrong_state(w) ==
    IF w.job.state # "CANCEL_RENDER" /\ ~w.render_cancel
    THEN [ w EXCEPT !.job.state = "POST_RENDER" ]
    ELSE w

\* RenderJob.pre_render
pre_render(w) ==
    IF w.job.state # "CANCEL_RENDER" /\ ~w.render_cancel
    THEN [ w EXCEPT !.job.state = "PRE_RENDER" ]
    ELSE w

\* mutant of post_render: no check of the state and of the cancel flag
post_render_unguarded(w) ==
    LET path == view_filepath(w.job, w.job.view, w.job.frame)
    IN  [ w EXCEPT !.viewfiles = @ \cup {path},
                   !.foreign = @ \ {path},
                   !.job.view_images_pixels = Append(@, path),
                   !.captured = Append(@, path) ]

\* RenderJob.post_render: save the render as the view file, load it, append its buffer
post_render(w) ==
    IF w.job.state # "CANCEL_RENDER" /\ ~w.render_cancel
    THEN LET path == view_filepath(w.job, w.job.view, w.job.frame)
         IN  [ w EXCEPT !.job.state = "POST_RENDER",
                        !.viewfiles = @ \cup {path},
                        !.foreign = @ \ {path},
                        !.job.view_images_pixels = Append(@, path),
                        !.captured = Append(@, path) ]
    ELSE w

\* mutant of completed_render: no check of the state and of the cancel flag
completed_render_unguarded(w) ==
    [ w EXCEPT !.job.state = "COMPLETE_RENDER", !.job.init = FALSE ]

\* RenderJob.completed_render
completed_render(w) ==
    IF w.job.state # "CANCEL_RENDER" /\ ~w.render_cancel
    THEN [ w EXCEPT !.job.state = "COMPLETE_RENDER", !.job.init = FALSE ]
    ELSE w

\* mutant of cancel_render: the cancel flag is not set
cancel_render_no_flag(w) ==
    [ w EXCEPT !.job.state = "CANCEL_RENDER" ]

\* RenderJob.cancel_render
cancel_render(w) ==
    [ w EXCEPT !.job.state = "CANCEL_RENDER", !.render_cancel = TRUE ]

\* the callback bpy.app.handlers runs for a hook of the renderer
RunHook(h, w) ==
    CASE h = "init" -> init_render(w)
      [] h = "pre" -> pre_render(w)
      [] h = "post" -> post_render(w)
      [] h = "complete" -> completed_render(w)

\* the first n hooks of a render, run one after the other
RECURSIVE RunHooks(_, _)
RunHooks(hs, w) ==
    IF hs = <<>> THEN w ELSE RunHooks(Tail(hs), RunHook(Head(hs), w))

\* --------------------------------------------------------- the operator
Running == op.result = "RUNNING_MODAL"

\* the frames LOOKINGGLASS_OT_render_quilt.cancel passes to delete_files
CancelFrames ==
    IF job.animation
    THEN scene.frame_start .. (scene.frame_end + scene.frame_step - 1)
    ELSE {job.frame}

\* mutant of DeletedViews: the loop over the views stops at the current view
DeletedViews_below_view(j, frames) ==
    { view_filepath(j, v, f) : v \in 0..(j.view - 1), f \in frames }

\* RenderJob.delete_files, the view files it removes for the given frames
DeletedViews(j, frames) ==
    { view_filepath(j, v, f) : v \in 0..(j.total_views - 1), f \in frames }

\* mutant of DeletedQuilts: the quilts of an animation are removed as well
DeletedQuilts_also_animation(j, frames) ==
    IF j.file_use_temp
    THEN { quilt_filepath(j, f) : f \in frames }
    ELSE {}

\* RenderJob.delete_files, the quilt files it removes for the given frames:
\* only when no file name was given and a still image was rendered
DeletedQuilts(j, frames) ==
    IF j.file_use_temp /\ ~j.animation
    THEN { quilt_filepath(j, f) : f \in frames }
    ELSE {}

\* mutant of CancelDeletesFiles: file_force_keep is not looked at
CancelDeletesFiles_ignores_keep ==
    \/ scene.render_output = "1"
    \/ ~( (job.animation = FALSE /\ ~job.file_use_temp) \/ op.animation = TRUE )
    \/ op.discard_lockfile = TRUE

\* LOOKINGGLASS_OT_render_quilt.cancel, the condition under which it deletes the files
CancelDeletesFiles ==
    \/ /\ \/ scene.render_output = "1"
          \/ ~( (job.animation = FALSE /\ ~job.file_use_temp) \/ op.animation = TRUE )
       /\ job.file_force_keep = FALSE
    \/ op.discard_lockfile = TRUE

\* RenderSettings.restore_original, its effect on the job: the copy of the
\* settings taken in RenderSettings.__init__ holds the job as RenderJob.__init__
\* left it, and from_dict sets every attribute of the copy that is not None
restore_original(j) ==
    [ j EXCEPT !.init = TRUE, !.frame = 1, !.view = 0, !.file_force_keep = FALSE ]

\* LOOKINGGLASS_OT_render_quilt.cancel followed by the report and the CANCELLED
\* result of the handler that called it.  Removing the app handlers raises inside
\* the try block (the operator has no init_render attribute), so neither the
\* handlers nor the timer are removed.
Unwind ==
    /\ job' = LET j == [ job EXCEPT !.view_images_pixels = <<>> ]
              IN  IF op.discard_lockfile = FALSE THEN restore_original(j) ELSE j
    /\ viewfiles' = IF CancelDeletesFiles
                    THEN viewfiles \ DeletedViews(job, CancelFrames)
                    ELSE viewfiles
    /\ foreign' = IF CancelDeletesFiles
                  THEN foreign \ DeletedViews(job, CancelFrames)
                  ELSE foreign
    /\ quiltfiles' = IF CancelDeletesFiles
                     THEN quiltfiles \ DeletedQuilts(job, CancelFrames)
                     ELSE quiltfiles
    /\ lockfile' = <<>>
    /\ render_cancel' = FALSE
    /\ op' = [ op EXCEPT !.use_lockfile = FALSE,
                         !.result = "CANCELLED",
                         !.report = <<op.cancel_sign, op.cancel_message>> ]
    /\ IF op.discard_lockfile = FALSE
       THEN /\ data_objects' = clean_up.objects
            /\ scene' = [ scene EXCEPT !.camera = clean_up.camera,
                                       !.resolution = "user",
                                       !.seed = scene.seed_user,
                                       !.render_progress = 0 ]
       ELSE /\ scene' = [ scene EXCEPT !.render_progress = 0 ]
            /\ UNCHANGED data_objects
    /\ UNCHANGED <<handlers, pending, quilts, captured, requests, refused, recorded>>

\* the frames cancel passes to delete_files for the job j
FramesOf(j) ==
    IF j.animation
    THEN scene.frame_start .. (scene.frame_end + scene.frame_step - 1)
    ELSE {j.frame}

\* LOOKINGGLASS_OT_render_quilt.invoke, including RenderSettings.__init__: the
\* checks of the output path, the write test on the quilt file, the discard of
\* an incomplete job, the multiview render, and the start of the modal job.
\* RenderSettings(...) is never None, so the branch for an unreadable lockfile is
\* never taken: the job with unset geometry goes on until range(0, None) in
\* delete_files or the assignment of None to resolution_x raises.
Invoke ==
    /\ op.result = "NONE"
    /\ LET rs == RenderSettings
           quilt == quilt_filepath(rs.job, rs.job.frame)
       IN  /\ job' = IF scene.output_error = "none" /\ rs.loaded /\ ~op.discard_lockfile
                        /\ op.use_multiview
                     THEN [ rs.job EXCEPT !.camera_original = scene.camera ]
                     ELSE rs.job
           /\ recorded' = rs.recorded
           /\ IF scene.output_error \in OutputErrors
              THEN /\ op' = [ op EXCEPT !.result = "FINISHED",
                                        !.report = << "ERROR", scene.output_error >> ]
                   /\ lockfile' = rs.lockfile
                   /\ scene' = rs.scene
                   /\ UNCHANGED <<render_cancel, handlers, viewfiles, foreign, quiltfiles,
                                  requests>>
              ELSE IF ~rs.loaded
              THEN /\ op' = [ op EXCEPT !.result = "EXCEPTION" ]
                   /\ lockfile' = rs.lockfile
                   /\ quiltfiles' = quiltfiles \ {quilt}
                   /\ scene' = rs.scene
                   /\ UNCHANGED <<render_cancel, handlers, viewfiles, foreign, requests>>
              ELSE IF op.discard_lockfile
              THEN /\ op' = [ op EXCEPT !.use_lockfile = FALSE,
                                        !.result = "CANCELLED",
                                        !.report = << "INFO", MsgDiscarded >> ]
                   /\ lockfile' = <<>>
                   /\ viewfiles' = viewfiles \ DeletedViews(rs.job, FramesOf(rs.job))
                   /\ foreign' = foreign \ DeletedViews(rs.job, FramesOf(rs.job))
                   /\ quiltfiles' = (quiltfiles \ {quilt})
                                       \ DeletedQuilts(rs.job, FramesOf(rs.job))
                   /\ render_cancel' = FALSE
                   /\ scene' = [ rs.scene EXCEPT !.render_progress = 0 ]
                   /\ UNCHANGED <<handlers, requests>>
              ELSE IF op.use_multiview
              THEN /\ op' = [ op EXCEPT !.result = "FINISHED" ]
                   /\ lockfile' = rs.lockfile
                   /\ quiltfiles' = quiltfiles \ {quilt}
                   /\ scene' = [ rs.scene EXCEPT !.resolution = "view" ]
                   /\ requests' = requests + 1
                   /\ UNCHANGED <<render_cancel, handlers, viewfiles, foreign>>
              ELSE /\ op' = [ op EXCEPT !.result = "RUNNING_MODAL" ]
                   /\ lockfile' = rs.lockfile
                   /\ quiltfiles' = quiltfiles \ {quilt}
                   /\ scene' = [ rs.scene EXCEPT !.resolution = "view" ]
                   /\ handlers' = TRUE
                   /\ UNCHANGED <<render_cancel, viewfiles, foreign, requests>>
    /\ UNCHANGED <<pending, quilts, captured, refused, data_objects>>

\* modal, event ESC
ModalEsc ==
    /\ Running
    /\ job' = [ job EXCEPT !.state = "CANCEL_RENDER" ]
    /\ render_cancel' = TRUE
    /\ UNCHANGED <<scene, op, handlers, pending, viewfiles, foreign, quiltfiles, quilts,
                   lockfile, captured, requests, refused, recorded, data_objects>>

\* mutant of AfterRequest: the state is left as the request left it
AfterRequest_keeps_state(j) == j

\* the job after the render request has returned something else than CANCELLED
AfterRequest(j) ==
    IF j.state # "CANCEL_RENDER" THEN [ j EXCEPT !.state = "IDLE" ] ELSE j

\* mutant of invoke: the frame is not added to an animated seed
invoke_without_frame ==
    IF scene.engine = "CYCLES"
    THEN LET seed == IF job.view = 0 THEN scene.seed ELSE job.seed
         IN  [ seed |-> seed, cycles_seed |-> seed + job.view ]
    ELSE [ seed |-> job.seed, cycles_seed |-> scene.seed ]

\* RenderJob.invoke: with the Cycles engine the seed of the scene is stored at
\* view 0, and the seed of the scene is set to the stored seed plus the view,
\* plus the frame if the seed is animated
invoke ==
    IF scene.engine = "CYCLES"
    THEN LET seed == IF job.view = 0 THEN scene.seed ELSE job.seed
         IN  [ seed |-> seed,
               cycles_seed |-> IF scene.use_animated_seed
                               THEN seed + job.frame + job.view
                               ELSE seed + job.view ]
    ELSE [ seed |-> job.seed, cycles_seed |-> scene.seed ]

\* the job after RenderJob.invoke and RenderJob.setup_camera
InvokedJob == [ setup_camera.job EXCEPT !.seed = invoke.seed ]

\* modal, event TIMER, state INVOKE_RENDER: the render request.  The renderer
\* either refuses the request (result CANCELLED) or accepts it; of an accepted
\* request it runs the first n lifecycle hooks before the call returns and owes
\* the others.  (A render cancelled during the call leaves the same state as one
\* cancelled right after the call, RenderCancel.)
ModalInvokeRender ==
    /\ Running
    /\ ~render_cancel
    /\ job.state = "INVOKE_RENDER"
    /\ \E accepted \in BOOLEAN, n \in 0..Len(HookOrder) :
         IF accepted
         THEN LET w == RunHooks(SubSeq(HookOrder, 1, n),
                                [ World EXCEPT !.job = InvokedJob ])
              IN  /\ job' = AfterRequest(w.job)
                  /\ render_cancel' = w.render_cancel
                  /\ viewfiles' = w.viewfiles
                  /\ foreign' = w.foreign
                  /\ captured' = w.captured
                  /\ pending' = SubSeq(HookOrder, n + 1, Len(HookOrder))
                  /\ requests' = requests + 1
                  /\ UNCHANGED refused
         ELSE /\ n = 0
              /\ refused < MaxRefused
              /\ requests' = requests + 1
              /\ refused' = refused + 1
              /\ job' = InvokedJob
              /\ UNCHANGED <<render_cancel, viewfiles, foreign, captured, pending>>
    /\ data_objects' = setup_camera.objects
    /\ scene' = [ scene EXCEPT !.camera = setup_camera.camera,
                               !.seed = invoke.cycles_seed ]
    /\ UNCHANGED <<op, handlers, quiltfiles, quilts, lockfile, recorded>>

\* RenderJob.assemble_quilt: the buffers at positions row * columns + column,
\* for every row and column, i.e. the first rows * columns buffers in order
assemble_quilt(j) == SubSeq(j.view_images_pixels, 1, j.rows * j.columns)

\* the progress expressions of the COMPLETE_RENDER step divide by zero
ProgressRaises(j) ==
    IF j.animation
    THEN (j.total_views - 1) * (scene.frame_end - scene.frame_start + 1) = 0
    ELSE j.total_views - 1 = 0

\* the progress the COMPLETE_RENDER step sets, in percent: int() of the fraction
\* of the views done for a still image, of the frames and views for an animation
render_progress(j) ==
    IF j.animation
    THEN (((j.frame - scene.frame_start) * (j.total_views - 1) + j.view) * 100)
            \div ((j.total_views - 1) * (scene.frame_end - scene.frame_start + 1))
    ELSE (j.view * 100) \div (j.total_views - 1)

\* mutant of AssemblyRaises: the sizes of the buffers are not looked at
AssemblyRaises_never(j) == FALSE

\* RenderJob.assemble_quilt raises: a list position it reads does not exist
\* (IndexError), or the buffer there has not the size of a view, so that reshape
\* raises ValueError.  A buffer has the size of the view file it was loaded from;
\* no view file of another size is written over while its buffer is in the list.
AssemblyRaises(j) ==
    \E i \in 1..(j.rows * j.columns) :
        \/ i > Len(j.view_images_pixels)
        \/ j.view_images_pixels[i] \in foreign

\* mutant of AdvanceJob: the view count is increased after the last view too
AdvanceJob_always_next ==
    [ job |-> [ job EXCEPT !.view = @ + 1, !.state = "INVOKE_RENDER" ],
      op |-> op, viewfiles |-> viewfiles ]

\* the view and frame step at the end of the COMPLETE_RENDER branch; yields the
\* job, the operator and the view files
AdvanceJob ==
    IF job.view < job.total_views - 1
    THEN [ job |-> [ job EXCEPT !.view = @ + 1, !.state = "INVOKE_RENDER" ],
           op |-> op, viewfiles |-> viewfiles ]
    ELSE IF job.animation = FALSE
    THEN [ job |-> [ job EXCEPT !.state = "CANCEL_RENDER" ],
           op |-> [ op EXCEPT !.cancel_sign = "INFO", !.cancel_message = MsgQuiltDone ],
           viewfiles |-> viewfiles ]
    ELSE IF job.frame < scene.frame_end
    THEN LET delete == scene.render_output = "1" /\ job.file_force_keep = FALSE
         IN  [ job |-> [ job EXCEPT
                           !.view_images_pixels = IF delete THEN <<>> ELSE @,
                           !.init = TRUE,
                           !.view = 0,
                           !.frame = @ + scene.frame_step,
                           !.state = "INVOKE_RENDER" ],
               op |-> op,
               viewfiles |-> IF delete
                             THEN viewfiles \ DeletedViews(job, {job.frame})
                             ELSE viewfiles ]
    ELSE [ job |-> [ job EXCEPT !.state = "CANCEL_RENDER" ],
           op |-> [ op EXCEPT !.cancel_sign = "INFO", !.cancel_message = MsgAnimationDone ],
           viewfiles |-> viewfiles ]

\* the COMPLETE_RENDER branch goes on with the next frame of the animation
FrameAdvances ==
    /\ job.view >= job.total_views - 1
    /\ job.animation
    /\ job.frame < scene.frame_end

\* modal, event TIMER, state COMPLETE_RENDER.  An exception of assemble_quilt
\* leaves modal before anything else is done: the operator ends with the
\* exception, without the unwind.
ModalCompleteRender ==
    /\ Running
    /\ ~render_cancel
    /\ job.state = "COMPLETE_RENDER"
    /\ IF job.view = job.total_views - 1 /\ AssemblyRaises(job)
       THEN /\ op' = [ op EXCEPT !.result = "EXCEPTION" ]
            /\ UNCHANGED <<scene, job, viewfiles, foreign, quiltfiles, quilts, lockfile,
                           data_objects>>
       ELSE /\ IF job.view = job.total_views - 1
               THEN /\ quiltfiles' = quiltfiles \cup {quilt_filepath(job, job.frame)}
                    /\ quilts' = (quilt_filepath(job, job.frame) :> assemble_quilt(job))
                                     @@ quilts
               ELSE UNCHANGED <<quiltfiles, quilts>>
            /\ lockfile' = IF lockfile # <<>> THEN write_to_lockfile(job) ELSE lockfile
            /\ job' = AdvanceJob.job
            /\ op' = AdvanceJob.op
            /\ viewfiles' = AdvanceJob.viewfiles
            /\ foreign' = foreign \cap AdvanceJob.viewfiles
            /\ IF FrameAdvances
               THEN /\ data_objects' = clean_up.objects
                    /\ scene' = [ scene EXCEPT
                                    !.render_progress = render_progress(job),
                                    !.camera = clean_up.camera,
                                    !.seed = IF scene.engine = "CYCLES"
                                             THEN job.seed ELSE @ ]
               ELSE /\ scene' = [ scene EXCEPT
                                    !.render_progress = render_progress(job) ]
                    /\ UNCHANGED data_objects
    /\ UNCHANGED <<render_cancel, handlers, pending, captured, requests, refused,
                   recorded>>

\* modal, any event but ESC that reaches the CANCEL_RENDER step
ModalCancelRender ==
    /\ Running
    /\ job.state = "CANCEL_RENDER" \/ render_cancel
    /\ Unwind

\* modal, any event but ESC in the other states: passed through
ModalPassThrough ==
    /\ Running
    /\ ~render_cancel
    /\ job.state \notin {"INVOKE_RENDER", "COMPLETE_RENDER", "CANCEL_RENDER"}
    /\ UNCHANGED vars

\* ---------------------------------------------------------- the renderer
\* the renderer runs the next lifecycle hook of the accepted request
RenderHook ==
    /\ handlers
    /\ pending # <<>>
    /\ LET w == RunHook(Head(pending), World)
       IN  /\ job' = w.job
           /\ render_cancel' = w.render_cancel
           /\ viewfiles' = w.viewfiles
           /\ foreign' = w.foreign
           /\ captured' = w.captured
    /\ pending' = Tail(pending)
    /\ UNCHANGED <<scene, op, handlers, quiltfiles, quilts, lockfile, requests, refused,
                   recorded, data_objects>>

\* the renderer cancels the accepted request and runs the cancel hook
RenderCancel ==
    /\ handlers
    /\ pending # <<>>
    /\ LET w == cancel_render(World)
       IN  /\ job' = w.job
           /\ render_cancel' = w.render_cancel
    /\ pending' = <<>>
    /\ UNCHANGED <<scene, op, handlers, viewfiles, foreign, quiltfiles, quilts, lockfile,
                   captured, requests, refused, recorded, data_objects>>

\* ------------------------------------------------------- specification
\* the frames an animation of the scene renders
SceneFrames(fs, fe, step) == { f \in fs..fe : (f - fs) % step = 0 }

\* the quilt files on disk before the job: the target file, when the output
\* path check finds it
ExistingQuilt(output_error, animation, frame) ==
    IF output_error = "file_exists"
    THEN { quilt_filepath([animation |-> animation], frame) }
    ELSE {}

\* the quilt presets: one for every number of views from 2 to MaxViews, of two
\* rows if the number is even and of one row if it is odd
QuiltPresets ==
    { [ rows |-> IF n % 2 = 0 THEN 2 ELSE 1,
        columns |-> IF n % 2 = 0 THEN n \div 2 ELSE n,
        total_views |-> n ] : n \in 2..MaxViews }

Init ==
    \E animation \in BOOLEAN, use_lockfile \in BOOLEAN, preset \in QuiltPresets,
       frame_end \in 1..MaxFrame, frame_step \in 1..MaxStep,
       render_output \in {"0", "1"}, file_use_temp \in BOOLEAN,
       discard_lockfile \in BOOLEAN, use_multiview \in BOOLEAN,
       output_error \in {"none"} \cup OutputErrors,
       engine \in {"CYCLES", "BLENDER_EEVEE"}, use_animated_seed \in BOOLEAN :
    LET total_views == preset.total_views
    IN
      /\ animation = FALSE => frame_step = 1
      /\ engine # "CYCLES" => use_animated_seed = FALSE
      /\ scene = [ frame_start |-> 1, frame_end |-> frame_end, frame_step |-> frame_step,
                   frame_current |-> frame_end, render_output |-> render_output,
                   total_views |-> total_views, file_use_temp |-> file_use_temp,
                   rows |-> preset.rows, columns |-> preset.columns,
                   blend_file |-> "/a/scene.blend", output_error |-> output_error,
                   lookingglassCamera |-> << "Camera", 0 >>,
                   camera |-> << "Camera", 0 >>, camera_user |-> << "Camera", 0 >>,
                   resolution |-> "user",
                   engine |-> engine, use_animated_seed |-> use_animated_seed,
                   seed |-> UserSeed, seed_user |-> UserSeed,
                   render_progress |-> 0 ]
      /\ op = [ animation |-> animation, use_lockfile |-> use_lockfile,
                discard_lockfile |-> discard_lockfile, use_multiview |-> use_multiview,
                cancel_sign |-> "INFO",
                cancel_message |-> MsgCancelled, result |-> "NONE",
                report |-> <<MsgNone, MsgNone>> ]
      /\ job = NewRenderJob(animation, use_lockfile)
      /\ IF use_lockfile
         THEN \/ /\ lockfile \in { <<>>, CorruptLockfile }
                 /\ viewfiles = {}
                 /\ foreign = {}
                 /\ quiltfiles = ExistingQuilt(output_error, animation,
                                               IF animation THEN 1 ELSE frame_end)
              \/ \E frame \in IF animation THEN SceneFrames(1, frame_end, frame_step)
                              ELSE {frame_end},
                    view \in 0..(total_views - 1),
                    blend_file \in BlendFiles, init \in BOOLEAN :
                 \E found \in SUBSET (0..(view - 1)), other \in SUBSET (0..(view - 1)) :
                    LET stored == ~init /\ engine = "CYCLES"
                        j == [ NewRenderJob(animation, TRUE) EXCEPT
                                 !.init = init, !.frame = frame, !.view = view,
                                 !.rows = preset.rows,
                                 !.columns = preset.columns,
                                 !.total_views = total_views,
                                 !.file_use_temp = file_use_temp,
                                 !.seed = IF stored THEN UserSeed ELSE NoSeed ]
                        cycles_seed == IF ~stored THEN UserSeed
                                       ELSE IF use_animated_seed
                                       THEN UserSeed + frame + view
                                       ELSE UserSeed + view
                    IN  /\ init => (view = 0 /\ frame = IF animation THEN 1 ELSE frame_end)
                        /\ lockfile = << ("blend_file" :> blend_file)
                                           @@ ("cycles_seed" :> cycles_seed) @@ to_dict(j) >>
                        /\ other \subseteq found
                        /\ viewfiles = { view_filepath(j, v, frame) : v \in found }
                        /\ foreign = { view_filepath(j, v, frame) : v \in other }
                        /\ quiltfiles = ExistingQuilt(output_error, animation, frame)
         ELSE /\ lockfile = <<>>
              /\ viewfiles = {}
              /\ foreign = {}
              /\ quiltfiles = ExistingQuilt(output_error, animation,
                                            IF animation THEN 1 ELSE frame_end)
      /\ render_cancel = FALSE
      /\ handlers = FALSE
      /\ pending = <<>>
      /\ quilts = <<>>
      /\ captured = <<>>
      /\ requests = 0
      /\ refused = 0
      /\ recorded = <<>>
      /\ data_objects = {}

Next ==
    \/ Invoke
    \/ ModalEsc
    \/ ModalInvokeRender
    \/ ModalCompleteRender
    \/ ModalCancelRender
    \/ ModalPassThrough
    \/ RenderHook
    \/ RenderCancel

Spec == Init /\ [][Next]_vars

\* ------------------------------------------ a job that nobody cancels
\* A new (not resumed) single-camera job with a valid output path, no ESC, no
\* render cancelled; the timer keeps firing
\* and the renderer runs every hook it owes.
LiveInit ==
    /\ Init
    /\ ~op.use_lockfile
    /\ ~op.discard_lockfile
    /\ ~op.use_multiview
    /\ scene.output_error = "none"

LiveNext ==
    \/ Invoke
    \/ ModalInvokeRender
    \/ ModalCompleteRender
    \/ ModalCancelRender
    \/ ModalPassThrough
    \/ RenderHook

LiveSpec ==
    /\ LiveInit
    /\ [][LiveNext]_vars
    /\ WF_vars(Invoke)
    /\ WF_vars(ModalInvokeRender)
    /\ WF_vars(ModalCompleteRender)
    /\ WF_vars(ModalCancelRender)
    /\ WF_vars(RenderHook)

\* ------------------------------------------------- the quilt assembly
\* the number of channels of a pixel in the reshape of assemble_quilt
Channels == 4

\* numpy.reshape of a flat buffer to the shape (h, w, Channels), in C order
reshape(flat, h, w) ==
    [ y \in 1..h |-> [ x \in 1..w |-> [ c \in 1..Channels |->
        flat[((y - 1) * w + (x - 1)) * Channels + c] ] ] ]

\* mutant of hstack: the arrays are joined from right to left
RECURSIVE hstack_right_to_left(_)
hstack_right_to_left(arrays) ==
    IF Len(arrays) = 1
    THEN arrays[1]
    ELSE [ y \in 1..Len(arrays[1]) |->
             hstack_right_to_left(Tail(arrays))[y] \o arrays[1][y] ]

\* numpy.hstack: the arrays joined along their second axis
RECURSIVE hstack(_)
hstack(arrays) ==
    IF Len(arrays) = 1
    THEN arrays[1]
    ELSE [ y \in 1..Len(arrays[1]) |-> arrays[1][y] \o hstack(Tail(arrays))[y] ]

\* numpy.vstack: the arrays joined along their first axis
RECURSIVE vstack(_)
vstack(arrays) ==
    IF Len(arrays) = 1 THEN arrays[1] ELSE arrays[1] \o vstack(Tail(arrays))

\* the sequences of a sequence joined in order
RECURSIVE Concat(_)
Concat(seqs) == IF seqs = <<>> THEN <<>> ELSE Head(seqs) \o Concat(Tail(seqs))

\* numpy.reshape of an array of pixels to a flat buffer, in C order
flatten(array) == Concat([ y \in 1..Len(array) |-> Concat(array[y]) ])

\* RenderJob.assemble_quilt, the pixels of the quilt: for every row the buffers
\* at the list positions row * columns + column are reshaped and stacked
\* horizontally, the rows are stacked vertically, the result is made flat
quiltPixels(buffers, rows, columns, w, h) ==
    LET horizontalStack(row) ==
            [ column \in 1..columns |->
                reshape(buffers[(row - 1) * columns + (column - 1) + 1], h, w) ]
        verticalStack == [ row \in 1..rows |-> hstack(horizontalStack(row)) ]
    IN  flatten(vstack(verticalStack))

\* the flat pixel buffer of the view image b: every value names its position
ViewPixels(b, w, h) == [ k \in 1..(w * h * Channels) |-> << b, k >> ]

\* RenderJob.assemble_quilt on a job with the given rows, columns and buffer list:
\* reading a list position the list does not have raises IndexError, before
\* anything is written
AssembleQuilt ==
    /\ op.result = "NONE"
    /\ IF Len(job.view_images_pixels) < job.rows * job.columns
       THEN /\ op' = [ op EXCEPT !.result = "IndexError" ]
            /\ UNCHANGED quilts
       ELSE /\ op' = [ op EXCEPT !.result = "DONE" ]
            /\ quilts' = quiltPixels(job.view_images_pixels, job.rows, job.columns,
                                     scene.resolution_x, scene.resolution_y)
    /\ UNCHANGED <<scene, job, render_cancel, handlers, pending, viewfiles, foreign, quiltfiles,
                   lockfile, captured, requests, refused, recorded, data_objects>>

\* a job with rows x columns views of resolution_x x resolution_y pixels and a
\* list of buffers, of the length rows * columns or not
AssembleInit ==
    \E rows \in 1..MaxRows, columns \in 1..MaxColumns,
       w \in 1..MaxWidth, h \in 1..MaxHeight :
    \E n \in 0..(rows * columns + 1) :
    \E images \in [ 1..n -> 1..MaxBuffers ] :
      /\ job = [ rows |-> rows, columns |-> columns,
                 view_images_pixels |-> [ i \in 1..n |-> ViewPixels(images[i], w, h) ] ]
      /\ scene = [ resolution_x |-> w, resolution_y |-> h ]
      /\ op = [ result |-> "NONE" ]
      /\ quilts = <<>>
      /\ render_cancel = FALSE
      /\ handlers = FALSE
      /\ pending = <<>>
      /\ viewfiles = {}
      /\ foreign = {}
      /\ quiltfiles = {}
      /\ lockfile = <<>>
      /\ captured = <<>>
      /\ requests = 0
      /\ refused = 0
      /\ recorded = <<>>
      /\ data_objects = {}

AssembleNext == AssembleQuilt

AssembleSpec == AssembleInit /\ [][AssembleNext]_vars

\* ------------------------------------------------- the camera poses
\* A rational number is a pair <<numerator, denominator>>, denominator above 0.
RatSub(p, q) == << p[1] * q[2] - q[1] * p[2], p[2] * q[2] >>

RatMul(p, q) == << p[1] * q[1], p[2] * q[2] >>

RatEq(p, q) == p[1] * q[2] = q[1] * p[2]

RatLess(p, q) == p[1] * q[2] < q[1] * p[2]

RatNeg(p) == << 0 - p[1], p[2] >>

\* the view cones of the devices, in degrees
ViewCones == {40, 58}

\* mutant of offsetAngle: the view index is divided by the number of views
offsetAngle_by_total_views(view, total_views, view_cone) ==
    RatMul(RatSub(<<1, 2>>, <<view, total_views>>), <<view_cone, 1>>)

\* RenderJob.setup_camera, the offset angle of a view in degrees:
\* (0.5 - view / (total_views - 1)) * view_cone, for total_views above 1
offsetAngle(view, total_views, view_cone) ==
    RatMul(RatSub(<<1, 2>>, <<view, total_views - 1>>), <<view_cone, 1>>)

\* RenderJob.setup_camera, the position and the shift of the camera of a view.
\* The cameras stand on the x axis of the base camera lg, unrotated, so that the
\* view matrix of lg is the translation by lg.x; the camera is put where the
\* original camera is, moved by -offset, where offset stands for
\* cameraDistance * tan(offsetAngle), and its shift is the shift of the original
\* camera plus 0.5 * offset / cameraSize, cameraSize standing for
\* cameraDistance * tan(fov / 2) with the field of view of lg.
ViewPose(view, total_views, view_cone, cameraDistance, lg, original) ==
    LET offset == [ cameraDistance |-> cameraDistance,
                    offsetAngle |-> offsetAngle(view, total_views, view_cone) ]
        cameraSize == [ cameraDistance |-> cameraDistance, fov |-> lg.fov ]
    IN  [ location |-> [ from |-> lg.x + (original.x - lg.x), offset |-> offset ],
          shift_x |-> [ from |-> original.shift_x, offset |-> offset,
                        cameraSize |-> cameraSize ] ]

\* RenderJob.setup_camera in single-camera mode, for the view of the job: the
\* original camera is the camera selected for the device
SingleCameraPose ==
    ViewPose(job.view, job.total_views, job.view_cone, scene.focalPlane,
             scene.lookingglassCamera, scene.lookingglassCamera)

\* RenderJob.setup_camera in multiview mode, for every view: the original camera
\* is the active camera of the scene
MultiviewPoses ==
    [ i \in 1..job.total_views |->
        ViewPose(i - 1, job.total_views, job.view_cone, scene.focalPlane,
                 scene.lookingglassCamera, scene.camera) ]

\* RenderJob.setup_camera applied to a job in single-camera mode and to the same
\* job in multiview mode; the division by total_views - 1 raises for one view
SetupCamera ==
    /\ op.result = "NONE"
    /\ IF job.total_views - 1 = 0
       THEN /\ op' = [ op EXCEPT !.result = "ZeroDivisionError" ]
            /\ UNCHANGED data_objects
       ELSE /\ op' = [ op EXCEPT !.result = "DONE" ]
            /\ data_objects' = [ single |-> SingleCameraPose,
                                 multiview |-> MultiviewPoses ]
    /\ UNCHANGED <<scene, job, render_cancel, handlers, pending, viewfiles, foreign,
                   quiltfiles, quilts, lockfile, captured, requests, refused, recorded>>

\* the variables the callbacks and the handlers of the operator use, at rest
OperatorAtRest ==
    /\ render_cancel = FALSE
    /\ handlers = FALSE
    /\ pending = <<>>
    /\ viewfiles = {}
    /\ foreign = {}
    /\ quiltfiles = {}
    /\ quilts = <<>>
    /\ lockfile = <<>>
    /\ captured = <<>>
    /\ requests = 0
    /\ refused = 0
    /\ recorded = <<>>

\* the cameras of a scene: position on the x axis, shift, field of view
SceneCameras == [ x : {0, 1}, shift_x : {0, 1}, fov : {1} ]

\* a job of 1 to MaxPoseViews views at one of its views, and a scene with a
\* camera selected for the device and an active camera
CameraInit ==
    \E total_views \in 1..MaxPoseViews, view_cone \in ViewCones,
       lg \in SceneCameras, active \in SceneCameras :
    \E view \in 0..(total_views - 1) :
      /\ job = [ view |-> view, total_views |-> total_views, view_cone |-> view_cone ]
      /\ scene = [ lookingglassCamera |-> lg, camera |-> active, focalPlane |-> 5 ]
      /\ op = [ result |-> "NONE" ]
      /\ data_objects = {}
      /\ OperatorAtRest

CameraNext == SetupCamera

CameraSpec == CameraInit /\ [][CameraNext]_vars

\* ----------------------------------------------------------- the progress
\* the update of the progress of the COMPLETE_RENDER step, applied to a job at
\* one of its views
UpdateProgress ==
    /\ op.result = "NONE"
    /\ IF ProgressRaises(job)
       THEN /\ op' = [ op EXCEPT !.result = "ZeroDivisionError" ]
            /\ UNCHANGED scene
       ELSE /\ op' = [ op EXCEPT !.result = "DONE" ]
            /\ scene' = [ scene EXCEPT !.render_progress = render_progress(job) ]
    /\ UNCHANGED <<job, data_objects, render_cancel, handlers, pending, viewfiles,
                   foreign, quiltfiles, quilts, lockfile, captured, requests, refused,
                   recorded>>

\* a still image or an animation of 1 to MaxPoseViews views, at one of its views
\* and one of its frames
ProgressInit ==
    \E animation \in BOOLEAN, total_views \in 1..MaxPoseViews,
       frame_end \in 1..MaxFrame, frame \in 1..MaxFrame :
    \E view \in 0..(total_views - 1) :
      /\ frame <= frame_end
      /\ job = [ animation |-> animation, total_views |-> total_views,
                 view |-> view, frame |-> frame ]
      /\ scene = [ frame_start |-> 1, frame_end |-> frame_end, render_progress |-> 0 ]
      /\ op = [ result |-> "NONE" ]
      /\ data_objects = {}
      /\ OperatorAtRest

ProgressNext == UpdateProgress

ProgressSpec == ProgressInit /\ [][ProgressNext]_vars

\* ------------------------------------------------------- file names as text
\* a text is a sequence of characters
Digits == << "0", "1", "2", "3", "4", "5", "6", "7", "8", "9" >>

\* Python's str of a natural number: its decimal digits
RECURSIVE str(_)
str(n) ==
    IF n < 10 THEN << Digits[n + 1] >>
    ELSE str(n \div 10) \o << Digits[(n % 10) + 1] >>

\* mutant of zfill: nothing is added
zfill_none(s, width) == s

\* Python's str.zfill for a text without a sign: zeros are added on the left
\* until the text has the width; a longer text is left as it is
RECURSIVE zfill(_, _)
zfill(s, width) ==
    IF Len(s) >= width THEN s ELSE zfill(<< "0" >> \o s, width)

\* os.path.join of a directory and a file name
path_join(dirname, name) ==
    IF dirname = <<>> THEN name
    ELSE IF dirname[Len(dirname)] = "/" THEN dirname \o name
    ELSE dirname \o << "/" >> \o name

\* RenderJob.get_quilt_suffix; quilt_aspect is the text str gives for the number
get_quilt_suffix(j) ==
    IF j.add_suffix
    THEN << "_", "q", "s" >> \o str(j.columns) \o << "x" >> \o str(j.rows)
           \o << "a" >> \o j.quilt_aspect
    ELSE <<>>

\* the "_f" segment of the file names of an animation
FrameSegment(frame, frame_end) ==
    << "_", "f" >> \o zfill(str(frame), Len(str(frame_end)))

\* RenderJob.quilt_filepath as text
quilt_filepath_text(j, frame) ==
    IF j.animation
    THEN path_join(j.file_dirname,
                   j.file_basename \o FrameSegment(frame, scene.frame_end)
                     \o get_quilt_suffix(j) \o j.file_extension)
    ELSE path_join(j.file_dirname,
                   j.file_basename \o get_quilt_suffix(j) \o j.file_extension)

\* RenderJob.view_filepath as text
view_filepath_text(j, view, frame) ==
    IF j.animation
    THEN path_join(j.file_dirname,
                   j.file_basename \o FrameSegment(frame, scene.frame_end)
                     \o get_quilt_suffix(j) \o << "_", "v" >>
                     \o zfill(str(view), Len(str(j.total_views - 1)))
                     \o j.file_extension)
    ELSE path_join(j.file_dirname,
                   j.file_basename \o get_quilt_suffix(j) \o << "_", "v" >>
                     \o zfill(str(view), Len(str(j.total_views - 1)))
                     \o j.file_extension)

\* the two file names of the job's frame and view are asked for; the calls read
\* the job and the scene and change neither
FilePaths ==
    /\ op.result = "NONE"
    /\ op' = [ op EXCEPT !.result = "DONE" ]
    /\ quiltfiles' = { quilt_filepath_text(job, job.frame) }
    /\ viewfiles' = { view_filepath_text(job, job.view, job.frame) }
    /\ UNCHANGED <<scene, job, data_objects, render_cancel, handlers, pending, foreign,
                   quilts, lockfile, captured, requests, refused, recorded>>

\* numbers of views of a job with one and with two digits in total_views - 1
PathTotalViews == {1, 2, 10, 11, 48}

\* frames and last frames with one, two and three digits
PathFrames == {1, 9, 10, 120}

\* directories, base names and extensions of the output path
PathDirnames == { <<>>, << "/", "t", "m", "p" >>, << "/" >> }
PathBasenames == { << "q" >>, << "a", "_", "v", "1" >> }
PathExtensions == { <<>>, << ".", "p", "n", "g" >> }

\* a job at one of its views and one of the frames, with its output path
PathInit ==
    \E animation \in BOOLEAN, add_suffix \in BOOLEAN, total_views \in PathTotalViews,
       frame \in PathFrames, frame_end \in PathFrames,
       file_dirname \in PathDirnames, file_basename \in PathBasenames,
       file_extension \in PathExtensions :
    \E view \in {0, 1, 9, 10, total_views - 1} \cap (0..(total_views - 1)) :
      /\ job = [ animation |-> animation, add_suffix |-> add_suffix,
                 total_views |-> total_views, view |-> view, frame |-> frame,
                 columns |-> 8, rows |-> 6,
                 quilt_aspect |-> << "0", ".", "7", "5" >>,
                 file_dirname |-> file_dirname, file_basename |-> file_basename,
                 file_extension |-> file_extension ]
      /\ scene = [ frame_end |-> frame_end ]
      /\ op = [ result |-> "NONE" ]
      /\ data_objects = {}
      /\ render_cancel = FALSE
      /\ handlers = FALSE
      /\ pending = <<>>
      /\ viewfiles = {}
      /\ foreign = {}
      /\ quiltfiles = {}
      /\ quilts = <<>>
      /\ lockfile = <<>>
      /\ captured = <<>>
      /\ requests = 0
      /\ refused = 0
      /\ recorded = <<>>

PathNext == FilePaths

PathSpec == PathInit /\ [][PathNext]_vars

\* ------------------------------------------------------------- claims
\* paths in the order in which a job captures them: by frame, then by view
PathBefore(p, q) == p[1] < q[1] \/ (p[1] = q[1] /\ p[2] < q[2])

CapturedInOrder ==
    \A i, k \in 1..Len(captured) : i < k => PathBefore(captured[i], captured[k])

\* the frames of the job: the scene's frames for an animation, else the job's frame
JobFrames ==
    IF job.animation
    THEN SceneFrames(scene.frame_start, scene.frame_end, scene.frame_step)
    ELSE {job.frame}

CapturedAll ==
    \A f \in JobFrames, v \in 0..(job.total_views - 1) :
        \E i \in 1..Len(captured) : captured[i] = view_filepath(job, v, f)

JobComplete ==
    /\ job.state = "CANCEL_RENDER"
    /\ op.cancel_sign = "INFO"
    /\ op.cancel_message \in {MsgQuiltDone, MsgAnimationDone}

\* C1: a job that is not cancelled, and whose renderer runs all hooks of every
\* requested view (during the render request or after it), eventually reaches
\* CANCEL_RENDER with the job-complete signal, every view of every frame captured
\* exactly once, in increasing order.
C1_EventuallyComplete == <>(JobComplete /\ CapturedAll /\ CapturedInOrder)

\* the states and the order of the state diagram: INVOKE_RENDER -> INIT_RENDER ->
\* PRE_RENDER -> POST_RENDER -> COMPLETE_RENDER -> (INVOKE_RENDER | CANCEL_RENDER),
\* and CANCEL_RENDER from any state
DiagramStates == States \ {"IDLE"}

DiagramOrder ==
    { <<"INVOKE_RENDER", "INIT_RENDER">>, <<"INIT_RENDER", "PRE_RENDER">>,
      <<"PRE_RENDER", "POST_RENDER">>, <<"POST_RENDER", "COMPLETE_RENDER">>,
      <<"COMPLETE_RENDER", "INVOKE_RENDER">> }
    \cup { <<s, "CANCEL_RENDER">> : s \in DiagramStates }

\* the same with IDLE, which the tick handler sets once the render request has
\* returned: the hooks that did not run during the request follow it
IdleOrder ==
    { <<"INVOKE_RENDER", "IDLE">>, <<"IDLE", "INIT_RENDER">>, <<"IDLE", "PRE_RENDER">>,
      <<"IDLE", "POST_RENDER">>, <<"IDLE", "COMPLETE_RENDER">>, <<"IDLE", "CANCEL_RENDER">>,
      <<"INIT_RENDER", "PRE_RENDER">>, <<"PRE_RENDER", "POST_RENDER">>,
      <<"POST_RENDER", "COMPLETE_RENDER">>, <<"COMPLETE_RENDER", "INVOKE_RENDER">> }
    \cup { <<s, "CANCEL_RENDER">> : s \in DiagramStates }

C3_CancelTerminal ==
    [][job.state = "CANCEL_RENDER" =>
         /\ (job.state)' = "CANCEL_RENDER"
         /\ requests' = requests
         /\ Len((job.view_images_pixels)') <= Len(job.view_images_pixels)
         /\ captured' = captured
         /\ (job.view)' <= job.view
         /\ (job.frame)' <= job.frame]_vars

\* the post hook of the only render has run while the job was CANCEL_RENDER
C3_Witness ==
    /\ job.state = "CANCEL_RENDER"
    /\ job.cancel_message = MsgNone
    /\ requests = 1 /\ refused = 0
    /\ pending = <<"complete">>
    /\ captured = <<>>

CancelRequested == job.state = "CANCEL_RENDER" /\ render_cancel

\* what LOOKINGGLASS_OT_render_quilt.cancel leaves behind
Unwound ==
    /\ op.result = "CANCELLED"
    /\ op.report[2] # MsgNone
    /\ lockfile = <<>>
    /\ job.view_images_pixels = <<>>
    /\ ~render_cancel
    /\ op.use_lockfile = FALSE

C5_ViewIndexOnlyAdvances ==
    /\ [](op.result \in {"RUNNING_MODAL", "CANCELLED"} =>
            (0 <= job.view /\ job.view < job.total_views))
    /\ [][(Running /\ (job.view)' # job.view) =>
            \/ /\ (job.view)' = job.view + 1
               /\ job.view < job.total_views - 1
               /\ job.state = "COMPLETE_RENDER"
               /\ captured # <<>>
               /\ captured[Len(captured)] = view_filepath(job, job.view, job.frame)
               /\ (job.frame)' = job.frame
            \/ /\ (job.view)' = 0
               /\ job.view = job.total_views - 1
               /\ (job.frame)' > job.frame]_vars

\* C5 amended: as stated, and the unwind, which ends the job, sets view to 0 and
\* frame to 1 when it restores the settings kept from before the job.
C5_ViewIndex ==
    /\ [](op.result \in {"RUNNING_MODAL", "CANCELLED"} =>
            (0 <= job.view /\ job.view < job.total_views))
    /\ [][(Running /\ (job.view)' # job.view) =>
            \/ /\ (job.view)' = job.view + 1
               /\ job.view < job.total_views - 1
               /\ job.state = "COMPLETE_RENDER"
               /\ captured # <<>>
               /\ captured[Len(captured)] = view_filepath(job, job.view, job.frame)
               /\ (job.frame)' = job.frame
            \/ /\ (job.view)' = 0
               /\ job.view = job.total_views - 1
               /\ (job.frame)' > job.frame
               /\ Running'
            \/ /\ ModalCancelRender
               /\ (job.view)' = 0
               /\ (job.frame)' = 1
               /\ (op.result)' = "CANCELLED"]_vars

\* a still image was cancelled after the capture of its second view, and the
\* unwind has set the view index to 0
C5_Witness ==
    /\ op.result = "CANCELLED"
    /\ op.report[2] = MsgCancelled
    /\ recorded = <<>>
    /\ ~job.animation
    /\ Len(captured) >= 2
    /\ job.view = 0

\* C6: between two captures (state INVOKE_RENDER, the view files of a resumed job
\* reloaded) the buffer list holds as many buffers as the view index says, and
\* right before assembly (COMPLETE_RENDER of the last view) it holds total_views
\* buffers, in every frame and in resumed jobs.
C6_BufferCount ==
    Running =>
      /\ (job.state = "INVOKE_RENDER" /\ ~(job.use_lockfile /\ job.init))
            => Len(job.view_images_pixels) = job.view
      /\ (job.state = "COMPLETE_RENDER" /\ job.view = job.total_views - 1)
            => Len(job.view_images_pixels) = job.total_views

\* C7: processing COMPLETE_RENDER of the last view of a frame, when the assembly
\* does not raise, assembles the quilt over the full buffer list; if the job goes
\* on with another frame the buffer list is empty afterwards, and the frame never
\* advances otherwise.
C7_ConsumedBeforeAdvance ==
    [][/\ (ModalCompleteRender /\ job.view = job.total_views - 1
             /\ ~AssemblyRaises(job)) =>
              /\ quilts'[quilt_filepath(job, job.frame)] = job.view_images_pixels
              /\ (job.state)' = "INVOKE_RENDER" => (job.view_images_pixels)' = <<>>
       /\ (Running /\ (job.frame)' # job.frame) => (job.view_images_pixels)' = <<>>]_vars

\* the init hook of the renderer runs in this step
InitHookRuns ==
    \/ /\ pending # <<>>
       /\ Head(pending) = "init"
       /\ pending' = Tail(pending)
    \/ /\ ModalInvokeRender
       /\ refused' = refused
       /\ Len(pending') < Len(HookOrder)

\* the init hook checks the view files of a resumed job and one is missing
ResumeCheckFails ==
    /\ InitHookRuns
    /\ job.use_lockfile /\ job.init
    /\ job.state # "CANCEL_RENDER" /\ ~render_cancel
    /\ MissingViews(World) # {}

ResumeAborted == job.cancel_message = MsgCannotContinue

\* C8: when the view files of a resumed job are checked and one below the recorded
\* view is missing, the job is put in CANCEL_RENDER with force-keep set; it stays
\* so until the unwind, no view is captured, no buffer is appended, and no view
\* file is deleted, the unwind included.
C8_ResumeAbortKeepsFiles ==
    /\ [][ResumeCheckFails => ResumeAborted']_vars
    /\ []((ResumeAborted /\ Running) =>
            (job.state = "CANCEL_RENDER" /\ job.file_force_keep))
    /\ [](ResumeAborted => job.state = "CANCEL_RENDER")
    /\ [][ResumeAborted =>
            /\ viewfiles' = viewfiles
            /\ captured' = captured
            /\ Len((job.view_images_pixels)') <= Len(job.view_images_pixels)]_vars

\* an aborted resume was unwound under the delete policy with view files on disk
C8_Witness ==
    /\ ResumeAborted
    /\ op.result = "CANCELLED"
    /\ scene.render_output = "1"
    /\ viewfiles # {}
    /\ recorded[2] = 2

\* C9: the result reported at the end of the unwind of a resume aborted for a
\* missing view file is the error with the job-cannot-be-continued message.
C9_ResumeErrorReported ==
    (ResumeAborted /\ op.result = "CANCELLED") =>
        op.report = <<"ERROR", MsgCannotContinue>>

\* the job in the frame it was resumed in, its view files reloaded
ResumedFrame ==
    /\ recorded # <<>>
    /\ Running
    /\ ~job.use_lockfile
    /\ job.frame = recorded[1]

\* the views k, k+1, ... of frame f, n of them
ViewsFrom(k, f, n) == [ i \in 1..n |-> view_filepath(job, k + i - 1, f) ]

\* C10: in a job resumed at view k of frame f, once the view files are reloaded
\* the buffer list is view file 0, 1, ... of frame f in index order, each once,
\* the views captured are k, k+1, ... in order, and the quilt of frame f is
\* assembled from the total_views buffers of views 0..total_views-1, of which
\* only k..total_views-1 were rendered by this job.
C10_ResumeReloadsOnce ==
    /\ ResumedFrame =>
         /\ captured = ViewsFrom(recorded[2], recorded[1], Len(captured))
         /\ recorded[2] + Len(captured) \in {job.view, job.view + 1}
         /\ Running => job.view_images_pixels =
                          ViewsFrom(0, recorded[1], recorded[2] + Len(captured))
    /\ (recorded # <<>> /\ quilt_filepath(job, recorded[1]) \in DOMAIN quilts) =>
         /\ quilts[quilt_filepath(job, recorded[1])] =
               ViewsFrom(0, recorded[1], job.total_views)
         /\ Len(captured) >= job.total_views - recorded[2]
         /\ SubSeq(captured, 1, job.total_views - recorded[2]) =
               ViewsFrom(recorded[2], recorded[1], job.total_views - recorded[2])

\* a job resumed at a view above 0 has assembled the quilt of its frame
C10_Witness ==
    /\ recorded # <<>>
    /\ recorded[2] > 0
    /\ quilt_filepath(job, recorded[1]) \in DOMAIN quilts
    /\ quiltfiles # {}

\* C11: a lockfile whose stored blend file differs from the blend file of the
\* session is rejected by invoke: the job keeps the frame, view and view count of
\* a new job, the operator does not go modal and no render is requested.
C11_MismatchRejected ==
    [][(Invoke /\ op.use_lockfile /\ ~LockfileUnreadable
          /\ lockfile[1].blend_file # scene.blend_file) =>
            /\ \A f \in {"frame", "view", "total_views"} :
                  job'[f] = NewRenderJob(op.animation, TRUE)[f]
            /\ (op.result)' # "RUNNING_MODAL"
            /\ requests' = requests]_vars

\* C12: when the operator was invoked to continue a job and the lockfile is
\* missing or can not be parsed, the operator ends CANCELLED with the
\* lockfile-not-found-or-corrupted error as its report (and so not with the report
\* of a check of the output path), no handler is registered and no render is
\* requested.
C12_BrokenLockfileAborts ==
    (op.result # "NONE" /\ op.use_lockfile /\ LockfileUnreadable) =>
        /\ op.result = "CANCELLED"
        /\ op.report = << "ERROR", MsgLockfileBroken >>
        /\ ~handlers
        /\ requests = 0

\* the attributes of the job that are kept in the lockfile
PersistentFields ==
    {"init", "seed", "animation", "frame", "view", "rows", "columns", "total_views",
     "file_use_temp", "file_force_keep"}

\* the attributes of the job that are not: their names start with an underscore
TransientFields == {"use_lockfile", "state", "view_images_pixels", "camera_original"}

\* invoke reads the lockfile in this step
LockfileLoaded == Invoke /\ op.use_lockfile /\ ~LockfileUnreadable

C14_LockfileDeleted ==
    ( \/ op.result = "CANCELLED" /\ op.report[2] \in {MsgQuiltDone, MsgAnimationDone}
      \/ op.result = "CANCELLED" /\ op.report[2] = MsgDiscarded
      \/ op.result = "FINISHED" /\ op.use_multiview /\ requests > 0 )
    => lockfile = <<>>

\* C15: after the unwind of a job that was not a discard invocation there is no
\* temporary camera, the active camera of the scene is the camera that was active
\* before the job, and the resolution is the one set before the job.
C15_UnwindRestores ==
    (op.result = "CANCELLED" /\ ~op.discard_lockfile) =>
        /\ data_objects = {}
        /\ scene.camera = scene.camera_user
        /\ scene.resolution = "user"

\* the unwind of a job the user cancelled (no job-complete message was set)
CancelUnwind == ModalCancelRender /\ op.cancel_message = MsgCancelled

HookCancelled == job.state = "CANCEL_RENDER" \/ render_cancel

\* what no hook does when cancellation was requested: no view file is written, no
\* buffer appended, the init flag is kept, and the state is CANCEL_RENDER
HookDidNothing ==
    /\ viewfiles' = viewfiles
    /\ (job.view_images_pixels)' = job.view_images_pixels
    /\ (job.init)' = job.init
    /\ captured' = captured
    /\ (job.state)' = "CANCEL_RENDER"

\* the step changes nothing of the job but the attributes in S
JobChangesOnly(S) == \A f \in (DOMAIN job) \ S : job'[f] = job[f]

\* C17 as stated: a hook run after cancellation was requested does nothing and
\* leaves the state CANCEL_RENDER; the init and the pre hook run without a
\* cancellation request change nothing but the state.
C17_HooksOnlySetState ==
    [][RenderHook =>
         /\ HookCancelled => HookDidNothing
         /\ (~HookCancelled /\ Head(pending) \in {"init", "pre"}) =>
               /\ JobChangesOnly({"state"})
               /\ viewfiles' = viewfiles
               /\ captured' = captured
               /\ render_cancel' = render_cancel]_vars

\* C17 amended: as stated, but the init hook of the first render of a continued
\* job (use_lockfile and init set) also reloads view buffers and clears
\* use_lockfile, or, when a view file is missing, sets CANCEL_RENDER, force-keep
\* and the error message; it writes no view file either.
C17_HooksOnlySetStateOrReload ==
    [][RenderHook =>
         /\ HookCancelled => HookDidNothing
         /\ (~HookCancelled /\ Head(pending) \in {"init", "pre"}) =>
               /\ IF Head(pending) = "init" /\ job.use_lockfile /\ job.init
                  THEN JobChangesOnly({"state", "view_images_pixels", "use_lockfile",
                                       "file_force_keep", "cancel_sign",
                                       "cancel_message"})
                  ELSE JobChangesOnly({"state"})
               /\ viewfiles' = viewfiles
               /\ captured' = captured
               /\ render_cancel' = render_cancel]_vars

\* the init hook, run after the render request returned, has reloaded the view
\* files of a job continued at a view above 0
C17_Witness ==
    /\ Running
    /\ recorded # <<>>
    /\ recorded[2] > 0
    /\ job.state = "INIT_RENDER"
    /\ ~job.use_lockfile
    /\ Len(job.view_images_pixels) = recorded[2]

\* C18: an invoke that ends with an error of the output path checks has written
\* or removed no lockfile, registered no handler, created or removed no file and
\* changed no scene setting.
C18_ConfigErrorNoEffects ==
    [][(Invoke /\ scene.output_error \in OutputErrors) =>
         /\ (op.result)' = "FINISHED"
         /\ (op.report)' = << "ERROR", scene.output_error >>
         /\ lockfile' = lockfile
         /\ handlers' = handlers
         /\ viewfiles' = viewfiles
         /\ quiltfiles' = quiltfiles
         /\ scene' = scene]_vars


\* C19: the assembled quilt has columns * width by rows * height by Channels
\* values, and for every row r and column c its tile (r, c) is the buffer at list
\* position r * columns + c: the pixel (x, y) of that buffer is the pixel
\* (c * width + x, r * height + y) of the quilt, rows of pixels following each
\* other without padding.
C19_TilesRowMajor ==
    op.result = "DONE" =>
        LET w == scene.resolution_x
            h == scene.resolution_y
        IN  /\ Len(quilts) = (job.columns * w) * (job.rows * h) * Channels
            /\ \A r \in 0..(job.rows - 1), c \in 0..(job.columns - 1),
                  y \in 0..(h - 1), x \in 0..(w - 1), k \in 1..Channels :
                  quilts[((r * h + y) * (job.columns * w) + (c * w + x)) * Channels + k]
                    = job.view_images_pixels[r * job.columns + c + 1]
                                            [(y * w + x) * Channels + k]

\* a quilt of 2 x 2 views of 2 x 2 pixels was assembled from different buffers
C19_Witness ==
    /\ op.result = "DONE"
    /\ job.rows = 2 /\ job.columns = 2
    /\ scene.resolution_x = 2 /\ scene.resolution_y = 2
    /\ Len(job.view_images_pixels) = 4
    /\ job.view_images_pixels[2] # job.view_images_pixels[3]

\* C20: assembling with a buffer list whose length is not rows * columns raises
\* an error and produces no quilt.
C20_WrongLengthRaises ==
    (op.result # "NONE" /\ Len(job.view_images_pixels) # job.rows * job.columns) =>
        /\ op.result = "IndexError"
        /\ quilts = <<>>

\* the modal handler finds, at the last view of a frame, a buffer of another
\* size or too few buffers in the positions the assembly reads
AssemblyFails ==
    /\ Running /\ ~render_cancel
    /\ job.state = "COMPLETE_RENDER"
    /\ job.view = job.total_views - 1
    /\ \/ Len(job.view_images_pixels) < job.total_views
       \/ \E i \in 1..job.total_views : job.view_images_pixels[i] \in foreign

\* C21: when the assembly of the quilt fails at the last view of a frame, the
\* step of the modal handler leaves view and frame as they are, does not set
\* the state INVOKE_RENDER, sets no job-complete message and writes no quilt or
\* lockfile; the operator ends with the exception, and the job stays so.
C21_AssemblyErrorStops ==
    /\ [][(AssemblyFails /\ ModalCompleteRender) =>
            /\ (job.view)' = job.view
            /\ (job.frame)' = job.frame
            /\ (job.state)' = "COMPLETE_RENDER"
            /\ (op.cancel_message)' = MsgCancelled
            /\ (op.result)' = "EXCEPTION"
            /\ quiltfiles' = quiltfiles
            /\ quilts' = quilts
            /\ lockfile' = lockfile]_vars
    /\ [][(op.result = "EXCEPTION" /\ requests > 0) => job' = job /\ op' = op]_vars

\* the assembly of the quilt of a continued job has failed on a reloaded buffer
C21_Witness ==
    /\ op.result = "EXCEPTION"
    /\ requests > 0
    /\ job.state = "COMPLETE_RENDER"
    /\ job.view = job.total_views - 1
    /\ job.view_images_pixels[1] \in foreign

\* the modal handler completes the last view of a frame of an animation with
\* more frames to come
FrameCompleted == ModalCompleteRender /\ FrameAdvances /\ ~AssemblyFails

\* C22: when the last view of a frame of an animation completes and more frames
\* remain, view is set to 0, frame is advanced by the frame step, no temporary
\* camera remains, the init flag is set and the state is INVOKE_RENDER; the view
\* files of the frame are deleted if the views are not to be kept and force-keep
\* is not set, and no view file is deleted otherwise.
C22_FrameAdvance ==
    [][FrameCompleted =>
         /\ (job.view)' = 0
         /\ (job.frame)' = job.frame + scene.frame_step
         /\ data_objects' = {}
         /\ (job.init)' = TRUE
         /\ (job.state)' = "INVOKE_RENDER"
         /\ viewfiles' = IF scene.render_output = "1" /\ ~job.file_force_keep
                         THEN viewfiles \ { view_filepath(job, v, job.frame) :
                                              v \in 0..(job.total_views - 1) }
                         ELSE viewfiles]_vars

\* the render requests the renderer has accepted
Accepted == requests - refused

\* the first render request of a continued job: the view files of the views
\* below job.view are reloaded by the init hook that follows it
FirstRequestOfContinuedJob == job.use_lockfile /\ job.init

\* what holds of every render request of the tick handler but the last clause:
\* the state is INVOKE_RENDER, the renderer owes no hook of an earlier request,
\* and every request accepted before has led to the capture of its view
OneAtATime ==
    /\ job.state = "INVOKE_RENDER"
    /\ pending = <<>>
    /\ Len(captured) = Accepted

\* the buffer of the view before job.view is the last of the buffer list
PreviousViewAppended ==
    /\ job.view_images_pixels # <<>>
    /\ job.view_images_pixels[Len(job.view_images_pixels)] =
          view_filepath(job, job.view - 1, job.frame)

\* C23 as stated: a render is requested only in the state INVOKE_RENDER, while
\* no render is outstanding and after the completion of every earlier request has
\* been processed, and the render of a view above 0 only after the buffer of the
\* view before it has been appended.
C23_OneRenderAtATime ==
    [][requests' # requests =>
         /\ requests' = requests + 1
         /\ OneAtATime
         /\ job.view > 0 => PreviousViewAppended]_vars

\* C23 amended: as stated, but the first request of a continued job is made
\* before the buffers of the views below the recorded view are appended: the init
\* hook of that render reloads them.
C23_OneRenderAtATimeOrReload ==
    [][requests' # requests =>
         /\ requests' = requests + 1
         /\ OneAtATime
         /\ (job.view > 0 /\ ~FirstRequestOfContinuedJob) => PreviousViewAppended
         /\ (job.view > 0 /\ FirstRequestOfContinuedJob) =>
               /\ job.view_images_pixels = <<>>
               /\ recorded # <<>> /\ job.view = recorded[2]]_vars

\* the render of the second view of a new job has been requested, after the
\* capture of the first
C23_Witness ==
    /\ Running
    /\ recorded = <<>>
    /\ Accepted = 2
    /\ job.view = 1
    /\ pending # <<>>
    /\ captured = << view_filepath(job, 0, job.frame) >>

\* the operator has ended with the job-complete report, after the unwind
Succeeded ==
    /\ op.result = "CANCELLED"
    /\ op.report[2] \in {MsgQuiltDone, MsgAnimationDone}

\* the quilt files of the frames of which this job has rendered a view
RenderedQuilts == { quilt_filepath(job, captured[i][1]) : i \in 1..Len(captured) }

AngleOf(v) == data_objects.multiview[v + 1].location.offset.offsetAngle

\* C25: for two or more views the offset angle decreases strictly with the view
\* index, is half the view cone at view 0 and minus half the view cone at the
\* last view, is antisymmetric about the middle of the views, is 0 at the middle
\* view of an odd number of views, and the single-camera mode uses the same
\* angle; for a view cone of 40 degrees and 5 views the angles are 20, 10, 0,
\* -10 and -20 degrees.
C25_OffsetAngles ==
    op.result = "DONE" =>
        LET n == job.total_views
            cone == job.view_cone
        IN  /\ n >= 2
            /\ \A v \in 0..(n - 2) : RatLess(AngleOf(v + 1), AngleOf(v))
            /\ RatEq(AngleOf(0), <<cone, 2>>)
            /\ RatEq(AngleOf(n - 1), <<0 - cone, 2>>)
            /\ \A v \in 0..(n - 1) : RatEq(AngleOf(v), RatNeg(AngleOf(n - 1 - v)))
            /\ n % 2 = 1 => RatEq(AngleOf((n - 1) \div 2), <<0, 1>>)
            /\ RatEq(data_objects.single.location.offset.offsetAngle, AngleOf(job.view))
            /\ (cone = 40 /\ n = 5) =>
                  \A v \in 0..4 : RatEq(AngleOf(v), << 20 - 10 * v, 1 >>)

\* the cameras of 5 views were set up for a view cone of 40 degrees
C25_Witness ==
    /\ op.result = "DONE"
    /\ job.total_views = 5
    /\ job.view_cone = 40
    /\ job.view = 2
    /\ RatEq(AngleOf(1), <<10, 1>>)

\* C26: for a job of one view the camera set-up ends without an error and the
\* offset angle of the view is 0.
C26_OneViewNoOffset ==
    (op.result # "NONE" /\ job.total_views = 1) =>
        /\ op.result = "DONE"
        /\ RatEq(data_objects.single.location.offset.offsetAngle, <<0, 1>>)

\* C27: the position and the shift of the camera of a view are the same in
\* single-camera mode and in multiview mode, whatever the active camera of the
\* scene is.
C27_ModesAgree ==
    op.result = "DONE" =>
        data_objects.single = data_objects.multiview[job.view + 1]

\* C27 where the active camera of the scene is the camera selected for the device
C27_ModesAgreeForBaseCamera ==
    (op.result = "DONE" /\ scene.camera = scene.lookingglassCamera) =>
        data_objects.single = data_objects.multiview[job.view + 1]

\* the seed RenderJob.invoke sets for the view about to be rendered, from the
\* seed the job has stored after the call
ViewSeed ==
    IF scene.use_animated_seed THEN job.seed' + job.frame + job.view
    ELSE job.seed' + job.view

\* C28: with the Cycles engine every render request of a view sets the seed of
\* the scene to the stored seed plus the view, plus the frame if the seed is
\* animated, where the stored seed is the seed of the scene at the request of
\* view 0 of the frame and is stored at no other step; and while the operator is
\* running, the only other step that changes the seed of the scene is the
\* completion of a frame with more frames to come, which sets it to the stored
\* seed.  Without the Cycles engine no step of the running job changes either.
C28_SeedPerView ==
    /\ [][(ModalInvokeRender /\ scene.engine = "CYCLES")
             => /\ job.seed' = IF job.view = 0 THEN scene.seed ELSE job.seed
                /\ scene.seed' = ViewSeed]_vars
    /\ [][(FrameCompleted /\ scene.engine = "CYCLES")
             => (scene.seed' = job.seed /\ job.seed' = job.seed)]_vars
    /\ [][(Running /\ Running' /\ ~ModalInvokeRender)
             => /\ job.seed' = job.seed
                /\ scene.seed' # scene.seed => FrameCompleted]_vars
    /\ [][(Running /\ Running' /\ scene.engine # "CYCLES")
             => (scene.seed' = scene.seed /\ job.seed' = job.seed)]_vars

\* an animation with an animated seed has completed a frame and has requested a
\* view above 0 of the next frame: the seed of the scene is the stored seed plus
\* the frame plus the view
C28_Witness ==
    /\ Running
    /\ scene.engine = "CYCLES"
    /\ scene.use_animated_seed
    /\ job.animation
    /\ job.frame > scene.frame_start
    /\ job.view > 0
    /\ job.state = "IDLE"
    /\ recorded # <<>>
    /\ scene.seed = job.seed + job.frame + job.view

\* the number a text of digits stands for
RECURSIVE DigitsValue(_)
DigitsValue(s) ==
    IF s = <<>> THEN 0
    ELSE 10 * DigitsValue(SubSeq(s, 1, Len(s) - 1))
           + (CHOOSE d \in 0..9 : Digits[d + 1] = s[Len(s)])

\* the number of decimal digits of a natural number
RECURSIVE DigitsWidth(_)
DigitsWidth(n) == IF n < 10 THEN 1 ELSE 1 + DigitsWidth(n \div 10)

\* text p is text q with the segment _v<view>, the view written in digits over the
\* width of total_views - 1, put in directly before the extension
ViewSegmentInserted(p, q, view) ==
    LET ext == job.file_extension
        stem == SubSeq(q, 1, Len(q) - Len(ext))
        number == SubSeq(p, Len(stem) + 3, Len(p) - Len(ext))
    IN  /\ q = stem \o ext
        /\ p = stem \o << "_", "v" >> \o number \o ext
        /\ Len(number) = DigitsWidth(job.total_views - 1)
        /\ \A i \in 1..Len(number) : \E d \in 1..10 : Digits[d] = number[i]
        /\ DigitsValue(number) = view

\* C29: the view path of a job is the quilt path of the same frame with the
\* segment _v<view>, zero-padded to the width of total_views - 1, directly before
\* the extension; this holds of every view of the job, so that two views of a
\* frame differ in the digits of that segment only; and the calls change nothing.
C29_ViewPath ==
    op.result = "DONE" =>
        /\ \A p \in viewfiles, q \in quiltfiles : ViewSegmentInserted(p, q, job.view)
        /\ \A view \in 0..(job.total_views - 1) :
              ViewSegmentInserted(view_filepath_text(job, view, job.frame),
                                  quilt_filepath_text(job, job.frame), view)
        /\ quiltfiles = { quilt_filepath_text(job, job.frame) }
        /\ viewfiles = { view_filepath_text(job, job.view, job.frame) }

\* the paths of a view with one digit of an animation of more than ten views,
\* with a suffix, a frame narrower than the last frame, and an extension
C29_Witness ==
    /\ op.result = "DONE"
    /\ job.animation
    /\ job.add_suffix
    /\ job.total_views > 11
    /\ job.view = 9
    /\ job.frame < 10
    /\ scene.frame_end > 10
    /\ job.file_extension # <<>>
    /\ job.file_dirname # <<>>
    /\ \E p \in viewfiles : Len(p) > 0

\* the percentage is the whole part of 100 times the progress fraction of job j
IsProgressOf(percent, j) ==
    LET views == j.total_views - 1
        num == IF j.animation
               THEN (j.frame - scene.frame_start) * views + j.view
               ELSE j.view
        den == IF j.animation
               THEN views * (scene.frame_end - scene.frame_start + 1)
               ELSE views
    IN  /\ den > 0
        /\ percent * den <= 100 * num
        /\ 100 * num < (percent + 1) * den

C30_ProgressOfRunningJob ==
    /\ [][(ModalCompleteRender /\ ~AssemblyFails)
             => IsProgressOf(scene.render_progress', job)]_vars
    /\ [][Running' => scene.render_progress' >= scene.render_progress]_vars

\* C31: the job of an operator that has started or discarded a job, new from a
\* quilt preset or read from the lockfile, has total_views = rows * columns, and so
\* has the job stored in the lockfile.
C31_ViewsAreRowsTimesColumns ==
    /\ op.result \in {"RUNNING_MODAL", "CANCELLED", "FINISHED", "EXCEPTION"}
          /\ job.total_views # 0
          => job.total_views = job.rows * job.columns
    /\ op.result \in {"RUNNING_MODAL", "CANCELLED"} => job.total_views >= 2
    /\ (lockfile # <<>> /\ lockfile # CorruptLockfile)
          => lockfile[1].total_views = lockfile[1].rows * lockfile[1].columns

\* a job of two rows read from the lockfile has completed a view and has written
\* the lockfile again
C31_Witness ==
    /\ Running
    /\ op.use_lockfile
    /\ recorded # <<>>
    /\ job.rows = 2
    /\ job.columns = 1
    /\ job.view > recorded[2]
    /\ lockfile # <<>>
    /\ lockfile[1].rows = 2
    /\ lockfile[1].view = recorded[2]

\* the buffers of the views of a frame, in the order of the views
FrameBuffers(j, frame) ==
    [ i \in 1..j.total_views |-> view_filepath(j, i - 1, frame) ]

\* C32: every quilt of an animation is assembled from the total_views buffers of
\* the views of its own frame, in order.
C32_QuiltFromOwnFrame ==
    job.animation =>
        \A frame \in JobFrames :
            quilt_filepath(job, frame) \in DOMAIN quilts
                => quilts[quilt_filepath(job, frame)] = FrameBuffers(job, frame)

\* the same, for the animations whose view files are deleted after each frame
C32_QuiltFromOwnFrameIfDeleted ==
    (scene.render_output = "1" /\ ~job.file_force_keep) => C32_QuiltFromOwnFrame

\* the view files a job continued from the lockfile would reload: those of the
\* recorded frame for the views below the recorded view
RecordedViews ==
    { view_filepath(job, v, lockfile[1].frame) : v \in 0..(lockfile[1].view - 1) }

\* C33: while the lockfile of a job that was started anew exists, the view files
\* of the recorded frame for all views below the recorded view exist.
C33_RecordResumable ==
    (~op.use_lockfile /\ lockfile # <<>>) => RecordedViews \subseteq viewfiles

\* the same, for the jobs whose view files are kept
C33_RecordResumableIfKept ==
    scene.render_output = "0" => C33_RecordResumable

\* C34: after the unwind the callbacks of the job are not registered with the
\* renderer any more.
C34_HandlersRemoved == op.result = "CANCELLED" => ~handlers

\* C35: every view captured by an animation is a view of a frame between the
\* first and the last frame of the scene.
C35_FramesInRange ==
    job.animation =>
        \A i \in 1..Len(captured) :
            captured[i][1] \in scene.frame_start..scene.frame_end

\* the same, for the frame steps that divide frame_end - frame_start
C35_FramesInRangeIfStepDivides ==
    (scene.frame_end - scene.frame_start) % scene.frame_step = 0 => C35_FramesInRange

\* C36: the progress is between 0 and 100 in every state, and it is 100 when the
\* last view of the last frame has completed and the operator has not unwound.
C36_ProgressInRange ==
    /\ scene.render_progress \in 0..100
    /\ (Running /\ JobComplete) => scene.render_progress = 100

\* the same, for the frame steps that divide frame_end - frame_start
C36_ProgressInRangeIfStepDivides ==
    (scene.frame_end - scene.frame_start) % scene.frame_step = 0 => C36_ProgressInRange

\* C37: at most one temporary camera exists at any time, and none after the
\* unwind or while the first view of a later frame waits for its render request.
C37_OneTempCamera ==
    /\ Cardinality(data_objects) <= 1
    /\ op.result = "CANCELLED" => data_objects = {}
    /\ (Running /\ job.animation /\ job.init /\ job.view = 0
          /\ job.state = "INVOKE_RENDER" /\ job.frame > scene.frame_start)
          => data_objects = {}

\* the same, for the jobs none of whose render requests was refused
C37_OneTempCameraIfNoneRefused == refused = 0 => C37_OneTempCamera

\* C38: once the job has stored a seed, the stored seed is the seed of the scene
\* before the job, and every view is requested with the seed an uninterrupted job
\* requests it with.
C38_BaseSeedIsUserSeed ==
    /\ (op.result \in {"RUNNING_MODAL", "CANCELLED"} /\ job.seed # NoSeed)
          => job.seed = scene.seed_user
    /\ (Running /\ scene.engine = "CYCLES" /\ job.state = "IDLE")
          => scene.seed = scene.seed_user + job.view
                            + (IF scene.use_animated_seed THEN job.frame ELSE 0)

\* the same, for the jobs without animated seed
C38_BaseSeedIsUserSeedIfNotAnimated ==
    ~scene.use_animated_seed => C38_BaseSeedIsUserSeed

====
